---- MODULE Spec2Model ----
(***************************************************************************)
(* Fixed-step integrators of lab6: Ecosystem::solve (ecosystem.rs), rk4    *)
(* and abam4_pred_corr (semiconductor/src/main.rs), and the convergence    *)
(* comparison compare (ecosystem.rs).                                      *)
(*                                                                         *)
(* f64 is modelled as a binary floating-point number with a MantBits-bit   *)
(* significand, round-to-nearest-even after every operation, and an        *)
(* unbounded exponent (no overflow to infinity, no subnormals).  A value   *)
(* is the pair <<m, e>> standing for m * 2^e, with m = 0 (and e = 0) or    *)
(* 2^(MantBits-1) <= |m| < 2^MantBits, so equal values are equal pairs.    *)
(* Division by zero only happens in the step count and in the relative     *)
(* error, and both places treat it explicitly.                             *)
(***************************************************************************)
EXTENDS Integers, Sequences, FiniteSets, TLC

\* width of the significand of the modelled f64 (53 in the program)
MantBits == 6
\* the model follows a loop that cannot end (dt = 0) for this many rounds
MaxIter == 6

RECURSIVE Pow2(_)
Pow2(n) == IF n <= 0 THEN 1 ELSE 2 * Pow2(n - 1)

Hi == Pow2(MantBits)
Lo == Pow2(MantBits - 1)

Abs(n) == IF n < 0 THEN 0 - n ELSE n

Zero == <<0, 0>>

\* p / q * 2^e (p >= 0, q > 0) rounded to the nearest value, ties to even
RECURSIVE Round(_, _, _)
Round(p, q, e) ==
    IF p = 0 THEN Zero
    ELSE IF p >= Hi * q THEN Round(p, 2 * q, e + 1)
    ELSE IF p < Lo * q THEN Round(2 * p, q, e - 1)
    ELSE LET m  == p \div q
             r  == p - m * q
             up == (2 * r > q) \/ (2 * r = q /\ m % 2 = 1)
             m2 == IF up THEN m + 1 ELSE m
         IN  IF m2 = Hi THEN <<Lo, e + 1>> ELSE <<m2, e>>

\* the same with a sign: neg is TRUE for a negative value
SignIf(neg, r) == IF neg THEN <<0 - r[1], r[2]>> ELSE r
RoundS(neg, p, q, e) == SignIf(neg, Round(p, q, e))

\* the literal p/q (q > 0), and `n as f64`
Lit(p, q) == RoundS(p < 0, Abs(p), q, 0)
FromInt(n) == Lit(n, 1)

FNeg(a) == <<0 - a[1], a[2]>>
FAbs(a) == <<Abs(a[1]), a[2]>>

FMul(a, b) ==
    RoundS((a[1] < 0) # (b[1] < 0), Abs(a[1]) * Abs(b[1]), 1, a[2] + b[2])

\* b # Zero
FDiv(a, b) ==
    RoundS((a[1] < 0) # (b[1] < 0), Abs(a[1]), Abs(b[1]), a[2] - b[2])

FAdd(a, b) ==
    IF a = Zero THEN b
    ELSE IF b = Zero THEN a
    ELSE LET hi == IF a[2] >= b[2] THEN a ELSE b
             lo == IF a[2] >= b[2] THEN b ELSE a
             d  == hi[2] - lo[2]
         IN  IF d >= MantBits + 2 THEN hi
             ELSE LET n == hi[1] * Pow2(d) + lo[1]
                  IN  RoundS(n < 0, Abs(n), 1, lo[2])

FSub(a, b) == FAdd(a, FNeg(b))

FLt(a, b) == FSub(a, b)[1] < 0
FLe(a, b) == FSub(a, b)[1] <= 0

\* f64::max of two numbers
FMax(a, b) == IF FLt(a, b) THEN b ELSE a

\* stands for usize::MAX, the result of casting +infinity
UsizeMax == 2147483647

\* x.floor() as usize: a negative value saturates to 0
FloorUsize(x) ==
    IF x[1] <= 0 THEN 0
    ELSE IF x[2] >= 0
         THEN (IF x[2] > 24 THEN UsizeMax ELSE x[1] * Pow2(x[2]))
         ELSE (IF 0 - x[2] >= MantBits THEN 0 ELSE x[1] \div Pow2(0 - x[2]))

\* a slip of StepCount: the number of samples taken for the number of steps
StepCountPlusOne(t0_, tf_, dt_) ==
    IF dt_ = Zero
    THEN (IF FSub(tf_, t0_)[1] > 0 THEN UsizeMax ELSE 0)
    ELSE FloorUsize(FDiv(FSub(tf_, t0_), dt_)) + 1

\* ((tf - t0) / dt).floor() as usize; x/0 is +inf, -inf or NaN, and the
\* cast turns +inf into usize::MAX and -inf and NaN into 0
StepCount(t0_, tf_, dt_) ==
    LET span == FSub(tf_, t0_)
    IN  IF dt_ = Zero
        THEN (IF span[1] > 0 THEN UsizeMax ELSE 0)
        ELSE FloorUsize(FDiv(span, dt_))


One   == Lit(1, 1)
Two   == Lit(2, 1)
Zero2 == <<Zero, Zero>>

Last(s) == s[Len(s)]

RECURSIVE Reverse(_)
Reverse(s) == IF s = <<>> THEN <<>> ELSE Append(Reverse(Tail(s)), Head(s))

(***************************************************************************)
(* The rate functions.                                                     *)
(***************************************************************************)

\* z.powi(3)
Powi3(a) == FMul(FMul(a, a), a)

\* semiconductor: dz = [z2, alpha*z2 - z2^3 - z1]
rate(alpha_, z) ==
    <<z[2], FSub(FSub(FMul(alpha_, z[2]), Powi3(z[2])), z[1])>>

\* the ecosystem every caller constructs, over the span ts
Ecosystem(ts) ==
    [ic |-> <<Lit(100000, 1), Lit(100000, 1)>>,
     a  |-> <<Lit(1, 10), Lit(1, 10)>>,
     b  |-> <<Lit(8, 10000000), Lit(8, 10000000)>>,
     c  |-> <<Lit(1, 1000000), Lit(1, 10000000)>>,
     ts |-> ts]

\* Ecosystem::rate, component c; it is coupled to the other one, 3 - c
EcoRateAt(self, pop, c) ==
    FMul(pop[c], FSub(FSub(self.a[c], FMul(self.b[c], pop[c])),
                      FMul(self.c[c], pop[3 - c])))

\* Ecosystem::rate
EcoRate(self, pop) == <<EcoRateAt(self, pop, 1), EcoRateAt(self, pop, 2)>>

\* the initial condition rk4 pushes: [0.0, 0.1]
Rk4Ic == <<Zero, Lit(1, 10)>>

(***************************************************************************)
(* One pass of the body of the RK4 loop.  The pass is a chain: each stage  *)
(* takes the locals the stages before it have set.                         *)
(***************************************************************************)

\* the closure update, component c: u = w + h * k
updateAt(w_, k_, h, c) == FAdd(w_[c], FMul(h, k_[c]))

\* the closure update
update(w_, k_, h) == <<updateAt(w_, k_, h, 1), updateAt(w_, k_, h, 2)>>

\* the closure next, component c: w1 + (dt / 6) * (k1 + 2 k2 + 2 k3 + k4)
nextAt(w1, ks, dt_, c) ==
    FAdd(w1[c],
         FMul(FDiv(dt_, Lit(6, 1)),
              FAdd(FAdd(FAdd(ks[1][c], FMul(Two, ks[2][c])),
                        FMul(Two, ks[3][c])), ks[4][c])))

\* the closure next
next(w1, ks, dt_) == <<nextAt(w1, ks, dt_, 1), nextAt(w1, ks, dt_, 2)>>

\* 0.5_f64 * dt
HalfDt(dt_) == FMul(Lit(1, 2), dt_)

\* t0 + (i as f64) * dt
TimeAt(t0_, i_, dt_) == FAdd(t0_, FMul(FromInt(i_), dt_))

\* the right-hand side a pass calls: rate(alpha, ..) in rk4, self.rate(..)
\* in Ecosystem::solve; m says which, with alpha or self
RateOf(m, z) == IF m.of = "rk4" THEN rate(m.alpha, z) ELSE EcoRate(m.self, z)

\* w1 = *y.last(); rate(w1, k1)
Stage1(m, w1) == [w |-> <<w1>>, k |-> <<RateOf(m, w1)>>]

\* a stage point u is set and the rate is taken there
Stage(m, s, u) == [w |-> Append(s.w, u), k |-> Append(s.k, RateOf(m, u))]

\* update(&w1, &k1, &mut w2, 0.5 * dt); rate(w2, k2)
Stage2(m, dt_, s) == Stage(m, s, update(s.w[1], s.k[1], HalfDt(dt_)))

\* update(&w2, &k2, &mut w3, 0.5 * dt); rate(w3, k3)
Stage3(m, dt_, s) == Stage(m, s, update(s.w[2], s.k[2], HalfDt(dt_)))

\* update(&w3, &k3, &mut w4, dt); rate(w4, k4)
Stage4(m, dt_, s) == Stage(m, s, update(s.w[3], s.k[3], dt_))

\* the locals w1..w4 and k1..k4 after a pass that starts from w1
Stages(m, dt_, w1) ==
    Stage4(m, dt_, Stage3(m, dt_, Stage2(m, dt_, Stage1(m, w1))))

\* next(&w1, &[k1, k2, k3, k4]), the state the pass pushes
Pushed(s, dt_) == next(s.w[1], s.k, dt_)

\* rk4, lines 70-78
Rk4Stages(alpha_, dt_, w1) == Stages([of |-> "rk4", alpha |-> alpha_], dt_, w1)

\* Ecosystem::solve, lines 90-98
SolveStages(self, dt_, w1) == Stages([of |-> "solve", self |-> self], dt_, w1)

(***************************************************************************)
(* rk4 and Ecosystem::solve as whole calls (the bootstrap of               *)
(* abam4_pred_corr and the runs of compare).  The callers pass a finite    *)
(* step count.                                                             *)
(***************************************************************************)

\* rk4, lines 70-81: pass i_ on the vectors ty
Rk4Pass(alpha_, dt_, t0_, i_, ty) ==
    [t |-> Append(ty.t, TimeAt(t0_, i_, dt_)),
     y |-> Append(ty.y, Pushed(Rk4Stages(alpha_, dt_, Last(ty.y)), dt_))]

\* for i in 1..=el
RECURSIVE Rk4Loop(_, _, _, _, _, _)
Rk4Loop(alpha_, dt_, t0_, el_, i_, ty) ==
    IF i_ > el_ THEN ty
    ELSE Rk4Loop(alpha_, dt_, t0_, el_, i_ + 1,
                 Rk4Pass(alpha_, dt_, t0_, i_, ty))

rk4(alpha_, dt_, t0_, tf_) ==
    Rk4Loop(alpha_, dt_, t0_, StepCount(t0_, tf_, dt_), 1,
            [t |-> <<t0_>>, y |-> <<Rk4Ic>>])

\* Ecosystem::solve, lines 90-101: pass i_ on the vectors ty
SolvePass(self, dt_, i_, ty) ==
    [t |-> Append(ty.t, TimeAt(self.ts[1], i_, dt_)),
     y |-> Append(ty.y, Pushed(SolveStages(self, dt_, Last(ty.y)), dt_))]

\* for i in 1..=n
RECURSIVE SolveLoop(_, _, _, _, _)
SolveLoop(self, dt_, n, i_, ty) ==
    IF i_ > n THEN ty
    ELSE SolveLoop(self, dt_, n, i_ + 1, SolvePass(self, dt_, i_, ty))

solve(self, dt_) ==
    SolveLoop(self, dt_, StepCount(self.ts[1], self.ts[2], dt_), 1,
              [t |-> <<self.ts[1]>>, y |-> <<self.ic>>])

(***************************************************************************)
(* The pieces of abam4_pred_corr.                                          *)
(***************************************************************************)

\* the closure predict, component c
predictAt(w_, f_, dt_, c) ==
    FAdd(w_[c],
         FMul(FDiv(dt_, Lit(24, 1)),
              FSub(FAdd(FSub(FMul(Lit(55, 1), f_[4][c]),
                             FMul(Lit(59, 1), f_[3][c])),
                        FMul(Lit(37, 1), f_[2][c])),
                   FMul(Lit(9, 1), f_[1][c]))))

\* the closure predict
predict(w_, f_, dt_) == <<predictAt(w_, f_, dt_, 1), predictAt(w_, f_, dt_, 2)>>

\* the closure correct, component c:
\* w += (dt / 24) * (9 fpred + 19 f[3] - 5 f[2] + f[1])
correctAt(w_, f_, fpred, dt_, c) ==
    FAdd(w_[c],
         FMul(FDiv(dt_, Lit(24, 1)),
              FAdd(FSub(FAdd(FMul(Lit(9, 1), fpred[c]),
                             FMul(Lit(19, 1), f_[4][c])),
                        FMul(Lit(5, 1), f_[3][c])),
                   f_[2][c])))

\* the closure correct
correct(w_, f_, fpred, dt_) ==
    <<correctAt(w_, f_, fpred, dt_, 1), correctAt(w_, f_, fpred, dt_, 2)>>

\* f.rotate_left(1); f[3] = fcorr
Shift(f_, fcorr) == <<f_[2], f_[3], f_[4], fcorr>>

\* lines 95-102: f after the loop over the bootstrap states y0
\* rate(alpha, y0i, &mut f[i]) for the states there are; the rest stays 0
HistoryAt(alpha_, y0, j) ==
    IF j <= Len(y0) THEN rate(alpha_, y0[j]) ELSE Zero2

InitHistory(alpha_, y0) ==
    <<HistoryAt(alpha_, y0, 1), HistoryAt(alpha_, y0, 2),
      HistoryAt(alpha_, y0, 3), HistoryAt(alpha_, y0, 4)>>

\* line 91: the bootstrap states
Bootstrap(alpha_, dt_, t0_) ==
    rk4(alpha_, dt_, t0_, FAdd(t0_, FMul(Lit(3, 1), dt_))).y

\* lines 121-132: the state a pass corrects to, from the last state w_
Corrected(alpha_, dt_, w_, f_) ==
    correct(w_, f_, rate(alpha_, predict(w_, f_, dt_)), dt_)

(***************************************************************************)
(* The pieces of compare.                                                  *)
(***************************************************************************)

dtarr(dt_) == <<dt_, FMul(Two, dt_), FMul(Lit(4, 1), dt_),
                FMul(Lit(8, 1), dt_), FMul(Lit(16, 1), dt_)>>

\* the ecosystem of compare and run: the span is [0, 10]
CompareEco == Ecosystem(<<Zero, Lit(10, 1)>>)

\* results of a division by zero; no number has these pairs
NaN == <<0, 1>>
Inf == <<0, 2>>

\* (s - exact).abs() / exact.abs()
RelErr(s, exact) ==
    IF exact = Zero THEN (IF s = Zero THEN NaN ELSE Inf)
    ELSE FDiv(FAbs(FSub(s, exact)), FAbs(exact))

\* the literal 1e-16, reached from 1e-4
Tiny == FMul(FMul(Lit(1, 10000), Lit(1, 10000)),
             FMul(Lit(1, 10000), Lit(1, 10000)))

\* er.max(1e-16).log10(); the logarithm is left as a tagged term
LogErr(er) ==
    [log10 |-> IF er = NaN THEN Tiny ELSE IF er = Inf THEN Inf
               ELSE FMax(er, Tiny)]

\* s[1..].iter().rev()
RevTail(s) == Reverse(Tail(s))

\* dtarr[1..].iter().rev().map(|dti| 1.0 / dti)
InvDt(arr) == [j \in 1..(Len(arr) - 1) |-> FDiv(One, RevTail(arr)[j])]

\* a slip of LogErrs: the errors are left in the order of the runs
LogErrsForward(sols, c) ==
    [j \in 1..(Len(sols) - 1) |-> LogErr(RelErr(Tail(sols)[j][c], sols[1][c]))]

\* solutions[1..].iter().rev().map(rel err of component c).map(log)
LogErrs(sols, c) ==
    [j \in 1..(Len(sols) - 1) |-> LogErr(RelErr(RevTail(sols)[j][c], sols[1][c]))]

(***************************************************************************)
(* The inputs of a run.                                                    *)
(***************************************************************************)

Fns     == {"solve", "rk4", "abam4", "compare"}
Alphas  == {Lit(1, 2), Lit(3, 2)}
Dts     == {Lit(-1, 1), Zero, Lit(23, 32), One, Two}
T0s     == {Zero, Lit(8, 1)}
Tfs     == {Zero, One, Lit(5, 1), Lit(8, 1), Lit(13, 1)}
BaseDts == {Lit(23, 32), One, Two}

VARIABLES
    fn,         \* the function that runs
    alpha, dt, t0, tf,   \* its arguments (solve: ts = [t0, tf]; compare: dt)
    pc,         \* "start", "loop", "done", or "panic"
    el,         \* the step count (n in solve)
    i,          \* the loop index
    t, y,       \* the vectors being built
    k, w,       \* the locals k1..k4 and w1..w4 of rk4 and solve
    f,          \* the derivative history of abam4_pred_corr
    evals,      \* number of calls of the rate function so far
    solutions,  \* compare: the final state of each run
    report      \* compare: inv_dt, logerr0, logerr1

vars == <<fn, alpha, dt, t0, tf, pc, el, i, t, y, k, w, f, evals,
          solutions, report>>

inputs == <<fn, alpha, dt, t0, tf>>

NoReport == [inv_dt |-> <<>>, logerr0 |-> <<>>, logerr1 |-> <<>>]

Init ==
    /\ fn \in Fns
    /\ alpha \in Alphas
    /\ fn \in {"solve", "compare"} => alpha = Lit(1, 2)
    /\ IF fn = "compare"
       THEN dt \in BaseDts /\ t0 = CompareEco.ts[1] /\ tf = CompareEco.ts[2]
       ELSE dt \in Dts /\ t0 \in T0s /\ tf \in Tfs
    /\ pc = "start"
    /\ el = 0
    /\ i = 0
    /\ t = <<>>
    /\ y = <<>>
    /\ k = <<Zero2, Zero2, Zero2, Zero2>>
    /\ w = <<Zero2, Zero2, Zero2, Zero2>>
    /\ f = <<Zero2, Zero2, Zero2, Zero2>>
    /\ evals = 0
    /\ solutions = <<>>
    /\ report = NoReport

\* the ecosystem of a run of solve
Self == Ecosystem(<<t0, tf>>)

\* the loop index may advance: a loop to usize::MAX is followed MaxIter rounds
InRange == i <= el /\ (el = UsizeMax => i <= MaxIter)

\* Vec::with_capacity(el + 1) with el = usize::MAX: the addition overflows,
\* which panics in a build with overflow checks
Overflow ==
    /\ el' = UsizeMax
    /\ pc' = "panic"
    /\ UNCHANGED <<i, t, y, k, w, f, solutions, report>>

\* a pass of the RK4 loop has left the locals s: they stay in k and w, and
\* the next state is pushed
Ran(s) ==
    /\ w' = s.w
    /\ k' = s.k
    /\ y' = Append(y, Pushed(s, dt))

(***************************************************************************)
(* rk4                                                                     *)
(***************************************************************************)

\* lines 35-51
Rk4Enter ==
    /\ fn = "rk4" /\ pc = "start"
    /\ el' = StepCount(t0, tf, dt)
    /\ \/ Overflow /\ UNCHANGED evals
       \/ /\ t' = <<t0>>
          /\ y' = <<Rk4Ic>>
          /\ i' = 1
          /\ pc' = "loop"
          /\ UNCHANGED <<k, w, f, evals, solutions, report>>
    /\ UNCHANGED inputs

\* lines 69-82, one pass
Rk4Iter ==
    /\ fn = "rk4" /\ pc = "loop" /\ InRange
    /\ Ran(Rk4Stages(alpha, dt, Last(y)))
    /\ t' = Append(t, TimeAt(t0, i, dt))
    /\ i' = i + 1
    /\ evals' = evals + 4
    /\ UNCHANGED <<inputs, pc, el, f, solutions, report>>

\* line 84
Rk4Return ==
    /\ fn = "rk4" /\ pc = "loop" /\ i > el
    /\ pc' = "done"
    /\ UNCHANGED <<inputs, el, i, t, y, k, w, f, evals, solutions, report>>

(***************************************************************************)
(* Ecosystem::solve                                                        *)
(***************************************************************************)

\* lines 53-69
SolveEnter ==
    /\ fn = "solve" /\ pc = "start"
    /\ el' = StepCount(Self.ts[1], Self.ts[2], dt)
    /\ \/ Overflow /\ UNCHANGED evals
       \/ /\ t' = <<Self.ts[1]>>
          /\ y' = <<Self.ic>>
          /\ i' = 1
          /\ pc' = "loop"
          /\ UNCHANGED <<k, w, f, evals, solutions, report>>
    /\ UNCHANGED inputs

\* lines 89-102, one pass
SolveIter ==
    /\ fn = "solve" /\ pc = "loop" /\ InRange
    /\ Ran(SolveStages(Self, dt, Last(y)))
    /\ t' = Append(t, TimeAt(Self.ts[1], i, dt))
    /\ i' = i + 1
    /\ evals' = evals + 4
    /\ UNCHANGED <<inputs, pc, el, f, solutions, report>>

\* line 105
SolveReturn ==
    /\ fn = "solve" /\ pc = "loop" /\ i > el
    /\ pc' = "done"
    /\ UNCHANGED <<inputs, el, i, t, y, k, w, f, evals, solutions, report>>

(***************************************************************************)
(* abam4_pred_corr                                                         *)
(***************************************************************************)

\* lines 93-102, with the bootstrap states y0 of line 91
Bootstrapped(y0) ==
    \/ Overflow /\ evals' = evals + 4 * (Len(y0) - 1)
    \/ /\ t' = [j \in 1..Len(y0) |-> TimeAt(t0, j - 1, dt)]
       /\ y' = y0
       /\ f' = InitHistory(alpha, y0)
       /\ evals' = evals + 4 * (Len(y0) - 1) + Len(y0)
       /\ i' = 4
       /\ pc' = "loop"
       /\ UNCHANGED <<k, w, solutions, report>>

\* lines 90-102
AbamEnter ==
    /\ fn = "abam4" /\ pc = "start"
    /\ el' = StepCount(t0, tf, dt)
    /\ Bootstrapped(Bootstrap(alpha, dt, t0))
    /\ UNCHANGED inputs

\* lines 130-140, with the corrected state w_
Stepped(w_) ==
    /\ f' = Shift(f, rate(alpha, w_))
    /\ y' = Append(y, w_)

\* lines 119-142, one pass
AbamIter ==
    /\ fn = "abam4" /\ pc = "loop" /\ InRange
    /\ Stepped(Corrected(alpha, dt, Last(y), f))
    /\ t' = Append(t, TimeAt(t0, i, dt))
    /\ i' = i + 1
    /\ evals' = evals + 2
    /\ UNCHANGED <<inputs, pc, el, k, w, solutions, report>>

\* line 144
AbamReturn ==
    /\ fn = "abam4" /\ pc = "loop" /\ i > el
    /\ pc' = "done"
    /\ UNCHANGED <<inputs, el, i, t, y, k, w, f, evals, solutions, report>>

(***************************************************************************)
(* compare                                                                 *)
(***************************************************************************)

\* lines 165-173
CompareEnter ==
    /\ fn = "compare" /\ pc = "start"
    /\ solutions' = <<>>
    /\ i' = 1
    /\ pc' = "loop"
    /\ UNCHANGED <<inputs, el, t, y, k, w, f, evals, report>>

\* lines 176-177, with the states yi of the run
Solved(yi) ==
    /\ solutions' = Append(solutions, Last(yi))
    /\ evals' = evals + 4 * (Len(yi) - 1)

\* lines 175-178, one pass: a whole run of solve, of which the last state
\* is kept
CompareSolve ==
    /\ fn = "compare" /\ pc = "loop" /\ i <= Len(dtarr(dt))
    /\ Solved(solve(CompareEco, dtarr(dt)[i]).y)
    /\ i' = i + 1
    /\ UNCHANGED <<inputs, pc, el, t, y, k, w, f, report>>

\* lines 181-205
CompareReport ==
    /\ fn = "compare" /\ pc = "loop" /\ i > Len(dtarr(dt))
    /\ report' = [inv_dt  |-> InvDt(dtarr(dt)),
                  logerr0 |-> LogErrs(solutions, 1),
                  logerr1 |-> LogErrs(solutions, 2)]
    /\ pc' = "done"
    /\ UNCHANGED <<inputs, el, i, t, y, k, w, f, evals, solutions>>

Next ==
    \/ Rk4Enter \/ Rk4Iter \/ Rk4Return
    \/ SolveEnter \/ SolveIter \/ SolveReturn
    \/ AbamEnter \/ AbamIter \/ AbamReturn
    \/ CompareEnter \/ CompareSolve \/ CompareReport

Spec == Init /\ [][Next]_vars

TypeOK ==
    /\ pc \in {"start", "loop", "done", "panic"}
    /\ Len(t) <= Len(y)
    /\ evals >= 0

(***************************************************************************)
(* Vocabulary of the properties.                                           *)
(***************************************************************************)

Integrators == {"solve", "rk4", "abam4"}

\* dt > 0 and tf > t0
Valid == FLt(Zero, dt) /\ FLt(t0, tf)

\* N = floor((tf - t0) / dt)
N == StepCount(t0, tf, dt)

\* the initial condition of the run
Ic == IF fn = "solve" THEN Self.ic ELSE Rk4Ic

\* the rate function of the run
Rate(z) == IF fn = "solve" THEN EcoRate(Self, z) ELSE rate(alpha, z)

\* a run has returned
Done == fn \in Integrators /\ pc = "done"

(***************************************************************************)
(* C1.  Step count: for every t0, tf, dt with dt > 0 and tf > t0, the      *)
(* trajectory an integrator (Ecosystem::solve, rk4, abam4_pred_corr)       *)
(* returns has exactly floor((tf - t0)/dt) + 1 samples, in the time        *)
(* sequence and in the state sequence.                                     *)
(***************************************************************************)
StepCountInvariant ==
    (Done /\ Valid) => (Len(t) = N + 1 /\ Len(y) = N + 1)

(***************************************************************************)
(* C2.  RK4 stage points: in every RK4 pass from the last state w1, the    *)
(* third rate is taken at w1 + (dt/2)*k2 and the fourth at w1 + dt*k3,     *)
(* and the pushed state is w1 + (dt/6)*(k1 + 2 k2 + 2 k3 + k4).            *)
(***************************************************************************)
Rk4StagePoints ==
    (fn \in {"solve", "rk4"} /\ pc \in {"loop", "done"} /\ Valid /\ Len(y) > 1) =>
        /\ w[1] = y[Len(y) - 1]
        /\ w[3] = update(w[1], k[2], HalfDt(dt))
        /\ w[4] = update(w[1], k[3], dt)
        /\ k[3] = Rate(w[3])
        /\ k[4] = Rate(w[4])
        /\ Last(y) = next(w[1], k, dt)

(***************************************************************************)
(* C3.  Trajectory invariant: at every loop boundary and on return the     *)
(* time and state sequences have equal length, the first state is the      *)
(* initial condition, and time[i] = t0 + i*dt for every index i, computed  *)
(* from the index.                                                         *)
(***************************************************************************)
TrajectoryInvariant ==
    (fn \in Integrators /\ pc \in {"loop", "done"}) =>
        /\ Len(t) = Len(y)
        /\ y[1] = Ic
        /\ \A j \in 1..Len(t) : t[j] = TimeAt(t0, j - 1, dt)

(***************************************************************************)
(* C4.  Invalid configurations are rejected before any computation: when   *)
(* dt <= 0, or tf <= t0, or (abam4_pred_corr) fewer than 4 steps are       *)
(* available, no trajectory is produced and no rate is evaluated.          *)
(***************************************************************************)
Invalid ==
    \/ FLe(dt, Zero)
    \/ FLe(tf, t0)
    \/ fn = "abam4" /\ N < 4

InvalidRejected ==
    (fn \in Integrators /\ Invalid) =>
        (pc # "done" /\ t = <<>> /\ y = <<>> /\ evals = 0)

(***************************************************************************)
(* C5.  Bootstrap agreement: for every (alpha, t0, tf, dt) the first 4     *)
(* states of the trajectory of abam4_pred_corr are the first 4 states of   *)
(* the trajectory rk4 returns for the same arguments.                      *)
(***************************************************************************)
First4Of(r) ==
    /\ Len(y) >= 4
    /\ Len(r) >= 4
    /\ \A j \in 1..4 : y[j] = r[j]

BootstrapAgreement ==
    (fn = "abam4" /\ pc = "done" /\ Valid) => First4Of(rk4(alpha, dt, t0, tf).y)

(***************************************************************************)
(* C6.  ABAM4 step result: every state of index i >= 4 (from 0) is         *)
(* w + (dt/24)*(9 rate(w_pred) + 19 f(y[i-1]) - 5 f(y[i-2]) + f(y[i-3]))   *)
(* with w = y[i-1] and w_pred = w + (dt/24)*(55 f(y[i-1]) - 59 f(y[i-2])   *)
(* + 37 f(y[i-3]) - 9 f(y[i-4])).  Position j below is index j - 1.        *)
(***************************************************************************)
HistoryOf(j) ==
    <<rate(alpha, y[j - 4]), rate(alpha, y[j - 3]),
      rate(alpha, y[j - 2]), rate(alpha, y[j - 1])>>

AbamStepResult ==
    (fn = "abam4" /\ pc \in {"loop", "done"} /\ Valid) =>
        \A j \in 5..Len(y) : y[j] = Corrected(alpha, dt, y[j - 1], HistoryOf(j))

(***************************************************************************)
(* C7.  Convergence report: with the multipliers [1, 2, 4, 8, 16], compare *)
(* takes the multiplier-1 run as the reference, has one entry for each of  *)
(* the 4 other runs, in strictly increasing 1/dt (the reverse of the       *)
(* multiplier order), and the two errors of entry j come from the final    *)
(* state of the run whose 1/dt is in entry j.                              *)
(***************************************************************************)
\* the step of the run of entry j: 16 dt, 8 dt, 4 dt, 2 dt
EntryDt(j) == dtarr(dt)[6 - j]

\* the final state of the run of compare with step d
Final(d) == Last(solve(CompareEco, d).y)

EntryOf(j, s, exact) ==
    /\ report.inv_dt[j] = FDiv(One, EntryDt(j))
    /\ report.logerr0[j] = LogErr(RelErr(s[1], exact[1]))
    /\ report.logerr1[j] = LogErr(RelErr(s[2], exact[2]))

ConvergenceReportShape ==
    (fn = "compare" /\ pc = "done") =>
        /\ Len(report.inv_dt) = 4
        /\ Len(report.logerr0) = 4
        /\ Len(report.logerr1) = 4
        /\ \A j \in 1..3 : FLt(report.inv_dt[j], report.inv_dt[j + 1])
        /\ \A j \in 1..4 : EntryOf(j, Final(EntryDt(j)), Final(dt))

\* a report whose entries differ, so that their order shows
ConvergenceReportMade ==
    /\ fn = "compare" /\ pc = "done"
    /\ Len(report.inv_dt) = 4
    /\ report.logerr0[1] # report.logerr0[4]
    /\ report.logerr1[1] # report.logerr1[4]

(***************************************************************************)
(* C8.  Degenerate span: when dt > 0 and 0 <= tf - t0 < dt (so N = 0),     *)
(* Ecosystem::solve and rk4 evaluate no rate and return the single sample  *)
(* (t0, initial condition).                                                *)
(***************************************************************************)
Degenerate ==
    /\ FLt(Zero, dt)
    /\ FLe(Zero, FSub(tf, t0))
    /\ FLt(FSub(tf, t0), dt)

DegenerateSpan ==
    (fn \in {"solve", "rk4"} /\ Degenerate) =>
        /\ evals = 0
        /\ pc # "panic"
        /\ pc = "loop" => i > el
        /\ pc = "done" => (t = <<t0>> /\ y = <<Ic>>)

\* rk4 has returned from a span that is shorter than one step and not empty
DegenerateReturned ==
    /\ fn = "rk4" /\ pc = "done"
    /\ Degenerate
    /\ tf # t0
    /\ Len(y) = 1

(***************************************************************************)
(* C9.  Derivative history: at the start of every ABAM4 step of index i,   *)
(* 4 <= i <= N, f is [rate(y[i-4]), rate(y[i-3]), rate(y[i-2]),            *)
(* rate(y[i-1])], oldest first; a step drops only the oldest entry and     *)
(* appends the derivative of the newly corrected state.                    *)
(***************************************************************************)
HistoryAtStep ==
    (fn = "abam4" /\ pc = "loop" /\ Valid /\ 4 <= i /\ i <= el) =>
        (Len(y) = i /\ f = HistoryOf(i + 1))

HistoryShift ==
    AbamIter => f' = <<f[2], f[3], f[4], rate(alpha, Last(y'))>>

HistoryInvariant == [] HistoryAtStep /\ [][HistoryShift]_vars

(***************************************************************************)
(* C10.  Termination and evaluation count: for dt > 0 and tf > t0 every    *)
(* run ends, with exactly 4 N rate evaluations in rk4 and                  *)
(* Ecosystem::solve, and in abam4_pred_corr with N >= 4 exactly 2 per      *)
(* step 4..N on top of the 16 of the bootstrap, 2 N + 10 in all.  The run  *)
(* ends because its loop index, which every pass raises, stays within      *)
(* N + 1 (within 4 when abam4_pred_corr has no step to make).              *)
(***************************************************************************)
LoopBounded ==
    /\ pc # "panic"
    /\ pc \in {"loop", "done"} => (el = N /\ (i <= N + 1 \/ i = 4))

EvalCount ==
    /\ fn \in {"solve", "rk4"} => evals = 4 * N
    /\ (fn = "abam4" /\ N >= 4) => evals = 2 * N + 10

TerminationAndEvalCount ==
    (fn \in Integrators /\ Valid) => (LoopBounded /\ (pc = "done" => EvalCount))
====
